---- MODULE Spec2Model ----
(***************************************************************************)
(* Model of mush, the Advent of Code scaffolding CLI (cmoron/aoc-rustdolph) *)
(*                                                                         *)
(*   utils.rs     create_file                 (File Materializer)          *)
(*   fetch.rs     fetch_input_with_base_url   (Input Fetcher)              *)
(*   commands.rs  create_scaffold             (Scaffold Generator)         *)
(*   results.rs   parse_part, total_time      (Run-Output Parser)          *)
(*   commands.rs  run_all                     (Batch Runner)               *)
(*   main.rs      Commands::Run               (the run command)            *)
(*                                                                         *)
(* Text is a sequence of one-character strings where the code looks inside *)
(* it (parse_part), and a sequence of opaque chunks where the code only    *)
(* copies it or tests it for emptiness (file contents, HTTP bodies).       *)
(* Option<T> is a sequence of length 0 (None) or 1 (Some).                 *)
(***************************************************************************)
EXTENDS Integers, Sequences, FiniteSets, TLC

VARIABLES
    fs,        \* the filesystem under the working directory
    session,   \* Option: the AOC_SESSION environment variable
    requests,  \* HTTP requests the server received from the last operation
    target,    \* the (day, year) the command line names
    last,      \* the last operation and what it returned
    output,    \* captured standard output of a day's subprocess
    parsed,    \* Option: label and (result, time) of the last parse_part call
    run,       \* the run or run_all call under way: its position and locals
    procs      \* the subprocesses that call has tried to launch, in order

vars == <<fs, session, requests, target, last, output, parsed, run, procs>>

fsVars == <<fs, session, requests, target, last>>
parseVars == <<output, parsed>>
runVars == <<run, procs>>

(***************************************************************************)
(* Bounds of the model                                                     *)
(***************************************************************************)
\* chunks a failed write_all may have written before it failed
MaxPartial == 0
\* lines of subprocess output handed to parse_part
MaxLines == 4

None == <<>>
Some(x) == <<x>>

Min(a, b) == IF a < b THEN a ELSE b

(***************************************************************************)
(* Result<T, anyhow::Error>: ok, the error kind, what the error message    *)
(* carries (a number: an HTTP status, a day or an exit code, 0 when none;  *)
(* a path, <<>> when none), and the value                                  *)
(***************************************************************************)
Ok(v) == [ok |-> TRUE, err |-> "", code |-> 0, at |-> <<>>, val |-> v]
Err(kind) == [ok |-> FALSE, err |-> kind, code |-> 0, at |-> <<>>, val |-> <<>>]
ErrStatus(kind, status) == [Err(kind) EXCEPT !.code = status]
ErrAt(kind, path) == [Err(kind) EXCEPT !.at = path]

(***************************************************************************)
(* Paths and names                                                         *)
(***************************************************************************)
\* format!("{:02}", day)
Pad2(day) == IF day < 10 THEN "0" \o ToString(day) ELSE ToString(day)

\* format!("day{:02}", day)
day_str(day) == "day" \o Pad2(day)

\* format!("day{:02}-{}", day, year)
package_name(day, year) == day_str(day) \o "-" \o ToString(year)

\* PathBuf::from("solutions").join(year.to_string()).join(&day_str)
base_path(day, year) == <<"solutions", ToString(year), day_str(day)>>

src_path(day, year) == base_path(day, year) \o <<"src">>

manifest_path(day, year) == base_path(day, year) \o <<"Cargo.toml">>
main_rs_path(day, year) == src_path(day, year) \o <<"main.rs">>
input_path(day, year) == base_path(day, year) \o <<"input.txt">>
example_path(day, year) == base_path(day, year) \o <<"example.txt">>

cargo_toml_content(day, year) ==
    << "[package]",
       "name = \"" \o package_name(day, year) \o "\"",
       "version = \"0.1.0\" edition = \"2021\"",
       "[dependencies] itertools regex" >>

main_rs_content ==
    << "fn main", "fn part1", "fn part2", "#[cfg(test)] mod tests" >>

(***************************************************************************)
(* The filesystem: fs.dirs is the set of directories, fs.files maps each   *)
(* existing file to its content. The working directory <<>> always exists. *)
(***************************************************************************)
Parent(path) == SubSeq(path, 1, Len(path) - 1)

\* Path::exists
exists(f, path) == path \in DOMAIN f.files \/ path \in f.dirs \/ path = <<>>

IsDir(f, path) == path \in f.dirs \/ path = <<>>

\* fs::create_dir_all: the directory and all its missing ancestors
create_dir_all(f, path) ==
    [f EXCEPT !.dirs = @ \cup {SubSeq(path, 1, k) : k \in 1..Len(path)}]

WriteFile(f, path, content) ==
    [f EXCEPT !.files = [p \in DOMAIN f.files \cup {path} |->
                            IF p = path THEN content ELSE f.files[p]]]

\* fs::read_to_string(..).is_empty()
is_empty(content) == content = <<>>

(***************************************************************************)
(* utils.rs: create_file. Returns the filesystem after the call and the    *)
(* Result. io is the fault the environment injects into the call: "ok",    *)
(* "create" (File::create fails) or "write" (write_all fails). File::create *)
(* also fails when the parent directory is missing; a failed write_all     *)
(* leaves the file created with the first n chunks of a non-empty content. *)
(***************************************************************************)
\* mutant: missing parent directories are created first (create_dir_all)
create_new_makes_parents(f, path, content, io, n) ==
    IF io = "create"
    THEN [fs |-> f, ret |-> ErrAt("CreateFailed", path)]
    ELSE [fs  |-> WriteFile(create_dir_all(f, Parent(path)), path, content),
          ret |-> Ok(<<>>)]

\* the branch taken when nothing exists at path
create_new(f, path, content, io, n) ==
    IF ~IsDir(f, Parent(path)) \/ io = "create"
    THEN [fs |-> f, ret |-> ErrAt("CreateFailed", path)]
    ELSE IF io = "write" /\ Len(content) > 0
    THEN [fs  |-> WriteFile(f, path,
                            SubSeq(content, 1, Min(n, Len(content) - 1))),
          ret |-> ErrAt("WriteFailed", path)]
    ELSE [fs |-> WriteFile(f, path, content), ret |-> Ok(<<>>)]

\* mutant: the existence check is missing
create_file_overwrites(f, path, content, io, n) ==
    create_new(f, path, content, io, n)

\* mutant: File::create (which truncates) runs before the existence check
create_file_truncates(f, path, content, io, n) ==
    IF path \in DOMAIN f.files
    THEN [fs |-> WriteFile(f, path, <<>>), ret |-> Ok(<<>>)]
    ELSE create_new(f, path, content, io, n)

create_file(f, path, content, io, n) ==
    IF ~exists(f, path)
    THEN create_new(f, path, content, io, n)
    ELSE [fs |-> f, ret |-> Ok(<<>>)]

(***************************************************************************)
(* fetch.rs: fetch_input_with_base_url. net is what the network and the    *)
(* server do with a request: kind "unreachable" (send fails) or "response" *)
(* with a status, a body, and whether the body can be read.                *)
(***************************************************************************)
\* format!("{}/{}/day/{}/input", base_url, year, day)
input_url(base_url, year, day) ==
    base_url \o "/" \o ToString(year) \o "/day/" \o ToString(day) \o "/input"

user_agent == "github.com/cmoron/aoc-rustdolph by cyril.moron@gmail.com"

get_request(base_url, sess, day, year) ==
    [method |-> "GET",
     url    |-> input_url(base_url, year, day),
     cookie |-> "session=" \o sess[1],
     agent  |-> user_agent]

\* mutant: only 200 counts as success
is_success_only_200(status) == status = 200

\* StatusCode::is_success
is_success(status) == status >= 200 /\ status <= 299

\* mutant: the request is sent before the credential is looked up
fetch_sends_before_credential(sess, day, year, base_url, net) ==
    LET sent == <<get_request(base_url, IF sess = None THEN Some("") ELSE sess,
                              day, year)>> IN
    IF sess = None
    THEN [ret |-> Err("MissingCredential"), reqs |-> sent]
    ELSE IF net.kind = "unreachable"
    THEN [ret |-> Err("RequestFailed"), reqs |-> sent]
    ELSE IF ~is_success(net.status)
    THEN [ret |-> ErrStatus("ServerError", net.status), reqs |-> sent]
    ELSE IF ~net.readable
    THEN [ret |-> Err("ReadFailed"), reqs |-> sent]
    ELSE [ret |-> Ok(net.body), reqs |-> sent]

fetch_input_with_base_url(sess, day, year, base_url, net) ==
    IF sess = None
    THEN [ret |-> Err("MissingCredential"), reqs |-> <<>>]
    ELSE LET sent == <<get_request(base_url, sess, day, year)>> IN
         IF net.kind = "unreachable"
         THEN [ret |-> Err("RequestFailed"), reqs |-> sent]
         ELSE IF ~is_success(net.status)
         THEN [ret |-> ErrStatus("ServerError", net.status), reqs |-> sent]
         ELSE IF ~net.readable
         THEN [ret |-> Err("ReadFailed"), reqs |-> sent]
         ELSE [ret |-> Ok(net.body), reqs |-> sent]

aoc_base_url == "https://adventofcode.com"

fetch_input(sess, day, year, net) ==
    fetch_input_with_base_url(sess, day, year, aoc_base_url, net)

(***************************************************************************)
(* commands.rs: create_scaffold. fault names the one step of this call the *)
(* environment makes fail, if it is executed: "mkdir" (create_dir_all,     *)
(* after creating n ancestors), "read" (read_to_string of input.txt), or a *)
(* file step ("manifest", "template", "input", "example") with the fault   *)
(* io handed to its create_file. Returns the filesystem, the Result, the   *)
(* requests issued and the Results of the fetcher's invocations.           *)
(***************************************************************************)
NoFault == [step |-> "none", io |-> "ok", n |-> 0]

io_at(fault, step) == IF fault.step = step THEN fault.io ELSE "ok"

\* mutant: an empty input.txt is not fetched again
needs_fetch_absent_only(f, path) == ~exists(f, path)

\* !input_path.exists() || fs::read_to_string(&input_path)?.is_empty()
needs_fetch(f, path) == ~exists(f, path) \/ is_empty(f.files[path])

Return(f, ret, reqs, fetched) ==
    [fs |-> f, ret |-> ret, reqs |-> reqs, fetched |-> fetched]

\* mutant: a fetch error is propagated (fetch_input(day, year)?)
scaffold_input_propagates(f, sess, day, year, net, fault) ==
    LET inp == input_path(day, year)
        ex  == example_path(day, year)
        example(g, reqs, fetched) ==
            IF ~exists(g, ex)
            THEN LET r6 == create_file(g, ex, <<>>, io_at(fault, "example"), fault.n)
                 IN  Return(r6.fs, r6.ret, reqs, fetched)
            ELSE Return(g, Ok(<<>>), reqs, fetched)
    IN
    IF exists(f, inp) /\ (fault.step = "read" \/ inp \notin DOMAIN f.files)
    THEN Return(f, Err("ReadFailed"), <<>>, <<>>)
    ELSE IF needs_fetch(f, inp)
    THEN LET got == fetch_input(sess, day, year, net) IN
         IF ~got.ret.ok
         THEN Return(f, got.ret, got.reqs, <<got.ret>>)
         ELSE LET r5 == create_file(f, inp, got.ret.val,
                                    io_at(fault, "input"), fault.n)
              IN  IF ~r5.ret.ok
                  THEN Return(r5.fs, r5.ret, got.reqs, <<got.ret>>)
                  ELSE example(r5.fs, got.reqs, <<got.ret>>)
    ELSE example(f, <<>>, <<>>)

\* steps 5 and 6, after the manifest and the template
scaffold_input(f, sess, day, year, net, fault) ==
    LET inp == input_path(day, year)
        ex  == example_path(day, year)
        example(g, reqs, fetched) ==
            IF ~exists(g, ex)
            THEN LET r6 == create_file(g, ex, <<>>, io_at(fault, "example"), fault.n)
                 IN  Return(r6.fs, r6.ret, reqs, fetched)
            ELSE Return(g, Ok(<<>>), reqs, fetched)
    IN
    IF exists(f, inp) /\ (fault.step = "read" \/ inp \notin DOMAIN f.files)
    THEN Return(f, Err("ReadFailed"), <<>>, <<>>)
    ELSE IF needs_fetch(f, inp)
    THEN LET got == fetch_input(sess, day, year, net)
             r5  == create_file(f, inp,
                                IF got.ret.ok THEN got.ret.val ELSE <<>>,
                                io_at(fault, "input"), fault.n)
         IN  IF ~r5.ret.ok
             THEN Return(r5.fs, r5.ret, got.reqs, <<got.ret>>)
             ELSE example(r5.fs, got.reqs, <<got.ret>>)
    ELSE example(f, <<>>, <<>>)

\* mutant: the Result of create_dir_all is dropped and scaffolding goes on
create_scaffold_ignores_mkdir(f, sess, day, year, net, fault) ==
    LET src == src_path(day, year)
        f2 == IF fault.step = "mkdir"
              THEN create_dir_all(f, SubSeq(src, 1, Min(fault.n, Len(src) - 1)))
              ELSE create_dir_all(f, src)
        r3 == create_file(f2, manifest_path(day, year),
                          cargo_toml_content(day, year),
                          io_at(fault, "manifest"), fault.n)
    IN
    IF ~r3.ret.ok THEN Return(r3.fs, r3.ret, <<>>, <<>>)
    ELSE
    LET r4 == create_file(r3.fs, main_rs_path(day, year), main_rs_content,
                          io_at(fault, "template"), fault.n)
    IN
    IF ~r4.ret.ok THEN Return(r4.fs, r4.ret, <<>>, <<>>)
    ELSE scaffold_input(r4.fs, sess, day, year, net, fault)

create_scaffold(f, sess, day, year, net, fault) ==
    LET src == src_path(day, year) IN
    IF fault.step = "mkdir"
    THEN Return(create_dir_all(f, SubSeq(src, 1, Min(fault.n, Len(src) - 1))),
                ErrAt("DirectoryCreateFailed", src), <<>>, <<>>)
    ELSE
    LET f2 == create_dir_all(f, src)
        r3 == create_file(f2, manifest_path(day, year),
                          cargo_toml_content(day, year),
                          io_at(fault, "manifest"), fault.n)
    IN
    IF ~r3.ret.ok THEN Return(r3.fs, r3.ret, <<>>, <<>>)
    ELSE
    LET r4 == create_file(r3.fs, main_rs_path(day, year), main_rs_content,
                          io_at(fault, "template"), fault.n)
    IN
    IF ~r4.ret.ok THEN Return(r4.fs, r4.ret, <<>>, <<>>)
    ELSE scaffold_input(r4.fs, sess, day, year, net, fault)

(***************************************************************************)
(* Inputs of the model                                                     *)
(***************************************************************************)
Days == {1, 25}
Years == {2024}

SessionTokens == {"test_cookie"}

\* the body a server sends with a puzzle input, which ends with a newline
Bodies == {<<"Test input data", "\n">>}

ErrorBody == <<"Not Found">>

SuccessStatuses == {200, 299}
FailureStatuses == {300, 404}

Unreachable ==
    [kind |-> "unreachable", status |-> 0, body |-> <<>>, readable |-> FALSE]

NetOutcomes ==
    {Unreachable}
    \cup {[kind |-> "response", status |-> s, body |-> ErrorBody, readable |-> TRUE]
             : s \in FailureStatuses}
    \cup {[kind |-> "response", status |-> s, body |-> b, readable |-> TRUE]
             : s \in SuccessStatuses, b \in Bodies}
    \cup {[kind |-> "response", status |-> 200, body |-> <<>>, readable |-> FALSE]}

\* faults of create_file: File::create fails, or write_all fails after n chunks
FileFaults ==
    {[step |-> "file", io |-> "create", n |-> 0]}
    \cup {[step |-> "file", io |-> "write", n |-> k] : k \in 0..MaxPartial}

At(step, fault) == [fault EXCEPT !.step = step]

\* faults that strike before create_scaffold decides whether to fetch
EarlyFaults ==
    {[step |-> "mkdir", io |-> "create", n |-> k] : k \in 0..MaxPartial}
    \cup {At(s, f) : s \in {"manifest", "template"}, f \in FileFaults}
    \cup {[step |-> "read", io |-> "create", n |-> 0]}

\* no fault, or one that strikes once the fetcher has answered
LateFaults ==
    {NoFault}
    \cup {At("input", f) : f \in FileFaults}
    \cup {[step |-> "example", io |-> "create", n |-> 0]}

\* the content a user, or a direct caller of create_file, writes
UserContents == {<<"// Modified content">>}

ScaffoldPaths(day, year) ==
    {manifest_path(day, year), main_rs_path(day, year),
     input_path(day, year), example_path(day, year)}

\* path: the path a direct create_file call or a user edit named
Last(op, path, ret, fetched, before) ==
    [op |-> op, path |-> path, ret |-> ret, fetched |-> fetched,
     before |-> before]

\* how input.txt stood when the operation began
InputState(f, day, year) ==
    IF ~exists(f, input_path(day, year)) THEN "absent"
    ELSE IF is_empty(f.files[input_path(day, year)]) THEN "empty"
    ELSE "nonempty"

(***************************************************************************)
(* Operations                                                              *)
(***************************************************************************)
InitFs ==
    /\ fs = [dirs |-> {}, files |-> <<>>]
    /\ session \in {None} \cup {Some(t) : t \in SessionTokens}
    /\ requests = <<>>
    /\ target \in [day : Days, year : Years]
    /\ last = Last("init", <<>>, Ok(<<>>), <<>>, "absent")

\* create_file(path, content), called directly
CreateFileCall(path, content, fault) ==
    LET r == create_file(fs, path, content, fault.io, fault.n) IN
    /\ fs' = r.fs
    /\ requests' = <<>>
    /\ last' = Last("create_file", path, r.ret, <<>>,
                     IF exists(fs, path) THEN "exists"
                     ELSE IF IsDir(fs, Parent(path)) THEN "absent"
                     ELSE "orphan")
    /\ UNCHANGED <<session, target, parseVars, runVars>>

\* mush scaffold --day D --year Y
CreateScaffoldCall(net, fault) ==
    LET r == create_scaffold(fs, session, target.day, target.year, net, fault) IN
    /\ fs' = r.fs
    /\ requests' = r.reqs
    /\ last' = Last("create_scaffold", <<>>, r.ret, r.fetched,
                     InputState(fs, target.day, target.year))
    /\ UNCHANGED <<session, target, parseVars, runVars>>

\* fetch_input_with_base_url(day, year, base_url), called directly
FetchInputCall(net) ==
    LET r == fetch_input_with_base_url(session, target.day, target.year,
                                       aoc_base_url, net) IN
    /\ requests' = r.reqs
    /\ last' = Last("fetch_input", <<>>, r.ret, <<r.ret>>, "absent")
    /\ UNCHANGED <<fs, session, target, parseVars, runVars>>

\* the user edits (fs::write) a file of the scaffold
UserWrite(path, content) ==
    /\ IsDir(fs, Parent(path))
    /\ fs' = WriteFile(fs, path, content)
    /\ requests' = <<>>
    /\ last' = Last("user_write", path, Ok(<<>>), <<>>, "absent")
    /\ UNCHANGED <<session, target, parseVars, runVars>>

\* env::set_var("AOC_SESSION", ..) / env::remove_var("AOC_SESSION")
SetSession(s) ==
    /\ session # s
    /\ session' = s
    /\ requests' = <<>>
    /\ last' = Last("set_env", <<>>, Ok(<<>>), <<>>, "absent")
    /\ UNCHANGED <<fs, target, parseVars, runVars>>

(***************************************************************************)
(* results.rs: parse_part. Text is a sequence of one-character strings.    *)
(***************************************************************************)
IndexOf(s, c) ==
    IF \E i \in 1..Len(s) : s[i] = c
    THEN CHOOSE i \in 1..Len(s) : s[i] = c /\ \A j \in 1..(i - 1) : s[j] # c
    ELSE 0

Drop(s, k) == SubSeq(s, k + 1, Len(s))

\* str::lines: the text between newlines; a final newline ends the last line
RECURSIVE lines(_)
lines(text) ==
    IF text = <<>> THEN <<>>
    ELSE LET i == IndexOf(text, "\n") IN
         IF i = 0 THEN <<text>>
         ELSE <<SubSeq(text, 1, i - 1)>> \o lines(Drop(text, i))

\* str::starts_with
starts_with(line, prefix) ==
    Len(line) >= Len(prefix) /\ SubSeq(line, 1, Len(prefix)) = prefix

\* line.split(':').nth(1): the text between the first colon and the next
split_nth1(line) ==
    LET i == IndexOf(line, ":") IN
    IF i = 0 THEN None
    ELSE LET rest == Drop(line, i)
             j    == IndexOf(rest, ":")
         IN  Some(IF j = 0 THEN rest ELSE SubSeq(rest, 1, j - 1))

Whitespace == {" ", "\t", "\r", "\n"}

RECURSIVE trim_start(_)
trim_start(s) ==
    IF s # <<>> /\ s[1] \in Whitespace THEN trim_start(Tail(s)) ELSE s

RECURSIVE trim_end(_)
trim_end(s) ==
    IF s # <<>> /\ s[Len(s)] \in Whitespace
    THEN trim_end(SubSeq(s, 1, Len(s) - 1)) ELSE s

\* str::trim
trim(s) == trim_end(trim_start(s))

ends_with(s, suffix) ==
    Len(s) >= Len(suffix)
    /\ SubSeq(s, Len(s) - Len(suffix) + 1, Len(s)) = suffix

\* str::trim_end_matches: the suffix is removed as often as it occurs
RECURSIVE trim_end_matches(_, _)
trim_end_matches(s, suffix) ==
    IF suffix # <<>> /\ ends_with(s, suffix)
    THEN trim_end_matches(SubSeq(s, 1, Len(s) - Len(suffix)), suffix)
    ELSE s

Digits == {"0", "1", "2", "3", "4", "5", "6", "7", "8", "9"}

DigitValue(c) ==
    CASE c = "0" -> 0 [] c = "1" -> 1 [] c = "2" -> 2 [] c = "3" -> 3
      [] c = "4" -> 4 [] c = "5" -> 5 [] c = "6" -> 6 [] c = "7" -> 7
      [] c = "8" -> 8 [] c = "9" -> 9

RECURSIVE DecimalValue(_)
DecimalValue(ds) ==
    IF ds = <<>> THEN 0
    ELSE 10 * DecimalValue(SubSeq(ds, 1, Len(ds) - 1)) + DigitValue(ds[Len(ds)])

RECURSIVE Pow10(_)
Pow10(k) == IF k = 0 THEN 1 ELSE 10 * Pow10(k - 1)

\* fractional digits the model keeps of an f64 (the template prints {:.4})
FractionDigits == 4

\* str::parse::<f64> of a decimal literal: [sign] digits [. digits], with a
\* digit on at least one side of the point. The value is kept as an integer
\* number of 10^-FractionDigits. Exponents, "inf" and "nan" need letters
\* that no text of this model holds.
parse_f64(s) ==
    LET signed == s # <<>> /\ s[1] \in {"+", "-"}
        body   == IF signed THEN Tail(s) ELSE s
        dot    == IndexOf(body, ".")
        int    == IF dot = 0 THEN body ELSE SubSeq(body, 1, dot - 1)
        frac   == IF dot = 0 THEN <<>> ELSE Drop(body, dot)
        kept   == SubSeq(frac, 1, Min(Len(frac), FractionDigits))
        value  == DecimalValue(int) * Pow10(FractionDigits)
                  + DecimalValue(kept) * Pow10(FractionDigits - Len(kept))
    IN
    IF /\ \A i \in 1..Len(int) : int[i] \in Digits
       /\ \A i \in 1..Len(frac) : frac[i] \in Digits
       /\ Len(int) + Len(frac) > 0
    THEN Some(IF signed /\ s[1] = "-" THEN 0 - value ELSE value)
    ELSE None

TimePrefix == <<"T", "i", "m", "e", ":">>
MsSuffix == <<"m", "s">>

\* mutant: a Time line is taken whether or not a result has been found
parse_line_ungated(acc, line, part_name) ==
    IF starts_with(line, part_name)
    THEN LET value == split_nth1(line) IN
         IF value # None
         THEN [acc EXCEPT !.result = Some(trim(value[1]))]
         ELSE acc
    ELSE IF starts_with(line, TimePrefix) /\ acc.time = None
    THEN LET time_str == split_nth1(line) IN
         IF time_str # None
         THEN LET t == parse_f64(trim_end_matches(trim(time_str[1]), MsSuffix))
              IN  IF t # None THEN [acc EXCEPT !.time = t] ELSE acc
         ELSE acc
    ELSE acc

\* the body of the loop over output.lines(): acc is (result, time)
parse_line(acc, line, part_name) ==
    IF starts_with(line, part_name)
    THEN LET value == split_nth1(line) IN
         IF value # None
         THEN [acc EXCEPT !.result = Some(trim(value[1]))]
         ELSE acc
    ELSE IF starts_with(line, TimePrefix) /\ acc.result # None /\ acc.time = None
    THEN LET time_str == split_nth1(line) IN
         IF time_str # None
         THEN LET t == parse_f64(trim_end_matches(trim(time_str[1]), MsSuffix))
              IN  IF t # None THEN [acc EXCEPT !.time = t] ELSE acc
         ELSE acc
    ELSE acc

RECURSIVE parse_loop(_, _, _)
parse_loop(acc, ls, part_name) ==
    IF ls = <<>> THEN acc
    ELSE parse_loop(parse_line(acc, Head(ls), part_name), Tail(ls), part_name)

parse_part(text, part_name) ==
    parse_loop([result |-> None, time |-> None], lines(text), part_name)

(***************************************************************************)
(* Subprocess output: the lines a day's program may print                  *)
(***************************************************************************)
Part1 == <<"P", "a", "r", "t", " ", "1">>
Part2 == <<"P", "a", "r", "t", " ", "2">>
Part3 == <<"P", "a", "r", "t", " ", "3">>

Labels == {Part1, Part2, Part3}

Line_Part1_42 == Part1 \o <<":", " ", "4", "2">>
Line_Part1_a_b == Part1 \o <<":", " ", "a", ":", "b", " ">>
Line_Part1_bare == Part1
Line_Part2_99 == Part2 \o <<":", " ", "9", "9">>
Line_Time_1_2345ms == TimePrefix \o <<" ", "1", ".", "2", "3", "4", "5", "m", "s">>
Line_Time_0_5000ms == TimePrefix \o <<" ", "0", ".", "5", "0", "0", "0", "m", "s">>
Line_Time_2_ms == TimePrefix \o <<" ", "2", " ", "m", "s">>
Line_empty == <<>>

OutputLines ==
    { Line_Part1_42,        \* "Part 1: 42"
      Line_Part1_a_b,       \* "Part 1: a:b ", a value that holds a colon
      Line_Part1_bare,      \* "Part 1", the label and no colon
      Line_Part2_99,        \* "Part 2: 99"
      Line_Time_1_2345ms,   \* "Time: 1.2345ms"
      Line_Time_0_5000ms,   \* "Time: 0.5000ms"
      Line_Time_2_ms,       \* "Time: 2 ms": "2 " is no f64
      Line_empty }

\* what the generated src/main.rs prints once both parts are solved
ExampleOutput ==
    Line_Part1_42 \o <<"\n">> \o Line_Time_1_2345ms \o <<"\n">>
    \o Line_Part2_99 \o <<"\n">> \o Line_Time_0_5000ms \o <<"\n">>

InitParse ==
    /\ output = <<>>
    /\ parsed = None

\* the subprocess prints one more line (println!)
EmitLine(line) ==
    /\ parsed = None
    /\ Len(lines(output)) < MaxLines
    /\ output' = output \o line \o <<"\n">>
    /\ UNCHANGED <<parsed, fsVars, runVars>>

\* parse_part(&stdout, label)
ParsePartCall(label) ==
    LET r == parse_part(output, label) IN
    /\ parsed' = Some([label |-> label, result |-> r.result, time |-> r.time])
    /\ parsed' # parsed
    /\ UNCHANGED <<output, fsVars, runVars>>

(***************************************************************************)
(* results.rs: DayResult. A time is a number of 10^-FractionDigits ms.     *)
(***************************************************************************)
\* Option::unwrap_or
unwrap_or(opt, default) == IF opt = None THEN default ELSE opt[1]

\* DayResult::total_time
total_time(r) == unwrap_or(r.part1_time, 0) + unwrap_or(r.part2_time, 0)

\* the DayResult run_all builds from the standard output of a day
day_result(day, stdout) ==
    LET p1 == parse_part(stdout, Part1)
        p2 == parse_part(stdout, Part2)
    IN  [day          |-> day,
         part1_result |-> p1.result,
         part1_time   |-> p1.time,
         part2_result |-> p2.result,
         part2_time   |-> p2.time]

(***************************************************************************)
(* The subprocess: cargo run -p <package>. cargo looks the package up      *)
(* among the members of the workspace, the directories two levels below    *)
(* solutions, and exits non-zero                                           *)
(* when no member's manifest names it; otherwise the day's program runs.   *)
(***************************************************************************)
cargo_run(pkg, quiet, release) ==
    [program |-> "cargo",
     args    |-> <<"run", "-p", pkg>>
                 \o (IF quiet THEN <<"--quiet">> ELSE <<>>)
                 \o (IF release THEN <<"--release">> ELSE <<>>)]

\* the package the command names
package_of(cmd) == cmd.args[3]

\* the manifests of the workspace members that name the package
cargo_members(f, pkg) ==
    {m \in DOMAIN f.files :
        /\ Len(m) = 4 /\ m[1] = "solutions" /\ m[4] = "Cargo.toml"
        /\ \E i \in 1..Len(f.files[m]) :
              f.files[m][i] = "name = \"" \o pkg \o "\""}

\* ExitStatus::success
success(code) == code = 0

\* the exit code of cargo, and of a Rust program that panics
ExitFailure == 101

Stdout_Part1Only == Line_Part1_42 \o <<"\n">> \o Line_Time_1_2345ms \o <<"\n">>
Stdout_Silent == <<>>

Stdouts == {ExampleOutput, Stdout_Part1Only, Stdout_Silent}

\* how the day's program may end: it fails, having printed or not, or it
\* exits zero having printed one of the outputs
ProgramOutcomes ==
    {[code |-> ExitFailure, stdout |-> Stdout_Part1Only]}
    \cup {[code |-> 0, stdout |-> o] : o \in Stdouts}

\* cargo finds no such package
PackageNotFound == [code |-> ExitFailure, stdout |-> <<>>]

ExitOutcomes(f, cmd) ==
    IF cargo_members(f, package_of(cmd)) = {}
    THEN {PackageNotFound}
    ELSE ProgramOutcomes

\* a subprocess the call tried to launch: state is "failed_to_start",
\* "running" or "exited"
Proc(day, cmd, state) ==
    [day |-> day, cmd |-> cmd, state |-> state, code |-> 0, stdout |-> <<>>]

(***************************************************************************)
(* commands.rs: run_all. The call is at run.pc "loop" (about to visit      *)
(* run.day), "wait" (inside Command::output, the subprocess running) or    *)
(* "done" (returned run.ret, having printed run.report).                   *)
(***************************************************************************)
\* for day in 1..=25
FirstDay == 1
LastDay == 25

\* mutant: the day is not padded ("day{}-{}")
run_all_package_name_unpadded(day, year) ==
    "day" \o ToString(day) \o "-" \o ToString(year)

\* format!("day{:02}-{}", day, year)
run_all_package_name(day, year) ==
    "day" \o Pad2(day) \o "-" \o ToString(year)

\* PathBuf::from("solutions").join(year.to_string()).join(format!("day{:02}", day))
day_path(day, year) == <<"solutions", ToString(year), "day" \o Pad2(day)>>

Idle ==
    [pc |-> "idle", op |-> "none", year |-> 0, release |-> FALSE, day |-> 0,
     results |-> <<>>, ret |-> None, report |-> None]

\* results.iter().map(|r| r.total_time()).sum()
RECURSIVE sum_total_time(_)
sum_total_time(results) ==
    IF results = <<>> THEN 0
    ELSE total_time(Head(results)) + sum_total_time(Tail(results))

\* Iterator::min_by folds with: keep the earlier element unless it compares
\* Greater than the later one
RECURSIVE min_by_fold(_, _)
min_by_fold(best, rest) ==
    IF rest = <<>> THEN best
    ELSE min_by_fold(IF total_time(best) > total_time(Head(rest))
                     THEN Head(rest) ELSE best,
                     Tail(rest))

min_by_total_time(results) ==
    IF results = <<>> THEN None
    ELSE Some(min_by_fold(Head(results), Tail(results)))

\* Iterator::max_by folds with: keep the earlier element only if it compares
\* Greater than the later one
RECURSIVE max_by_fold(_, _)
max_by_fold(best, rest) ==
    IF rest = <<>> THEN best
    ELSE max_by_fold(IF total_time(best) > total_time(Head(rest))
                     THEN best ELSE Head(rest),
                     Tail(rest))

\* mutant: of several maxima the first is kept
max_by_keeps_first(results) ==
    IF results = <<>> THEN None
    ELSE LET best == CHOOSE i \in 1..Len(results) :
                        /\ \A j \in 1..Len(results) :
                              total_time(results[j]) <= total_time(results[i])
                        /\ \A j \in 1..(i - 1) :
                              total_time(results[j]) < total_time(results[i])
         IN  Some(results[best])

max_by_total_time(results) ==
    IF results = <<>> THEN None
    ELSE Some(max_by_fold(Head(results), Tail(results)))

\* "Day {:02} ({:.4}ms)": the day and the total time the report names
DayAndTime(opt) ==
    IF opt = None THEN None
    ELSE Some([day |-> opt[1].day, time |-> total_time(opt[1])])

\* the global report; avg_time is the quotient num / den
Summary(r) ==
    [kind       |-> "summary",
     release    |-> r.release,
     completed  |-> Len(r.results),
     total_time |-> sum_total_time(r.results),
     avg_time   |-> [num |-> sum_total_time(r.results), den |-> Len(r.results)],
     fastest    |-> DayAndTime(min_by_total_time(r.results)),
     slowest    |-> DayAndTime(max_by_total_time(r.results))]

NoneFound(r) == [kind |-> "none_found", year |-> r.year]

Returned(r, ret, report) ==
    [r EXCEPT !.pc = "done", !.ret = Some(ret), !.report = report]

\* mutant: the report is computed whether or not a day gave a result
after_loop_unguarded(r) == Returned(r, Ok(<<>>), Some(Summary(r)))

\* the code after the loop
after_loop(r) ==
    IF r.results = <<>>
    THEN Returned(r, Ok(<<>>), Some(NoneFound(r)))
    ELSE Returned(r, Ok(<<>>), Some(Summary(r)))

\* the end of an iteration: the next day, or the code after the loop
next_day(r) ==
    IF r.day = LastDay THEN after_loop(r)
    ELSE [r EXCEPT !.pc = "loop", !.day = @ + 1]

\* mutant: a subprocess that cannot be started is one more skipped day
output_failed_skips_day(r) == next_day(r)

\* command.output().with_context(..)? when the subprocess cannot be started
output_failed(r) == Returned(r, ErrStatus("LaunchFailed", r.day), None)

\* mutant: a day that exits non-zero ends the loop
output_done_breaks(r, p) ==
    IF ~success(p.code) THEN after_loop(r)
    ELSE next_day([r EXCEPT !.results = Append(@, day_result(r.day, p.stdout))])

\* the rest of the iteration once the subprocess p has exited
output_done(r, p) ==
    IF ~success(p.code) THEN next_day(r)
    ELSE next_day([r EXCEPT !.results = Append(@, day_result(r.day, p.stdout))])

\* mush run-all --year Y [--release]
RunAllStart(year, release) ==
    /\ run.pc = "idle"
    /\ run' = [Idle EXCEPT !.pc = "loop", !.op = "run_all", !.year = year,
                           !.release = release, !.day = FirstDay]
    /\ procs' = <<>>
    /\ UNCHANGED <<fsVars, parseVars>>

\* an iteration on a day that has no directory
RunAllSkipMissing ==
    /\ run.op = "run_all" /\ run.pc = "loop"
    /\ ~exists(fs, day_path(run.day, run.year))
    /\ run' = next_day(run)
    /\ UNCHANGED <<procs, fsVars, parseVars>>

\* an iteration on a day that has a directory, up to the launch of cargo
RunAllLaunch(started) ==
    LET cmd == cargo_run(run_all_package_name(run.day, run.year), TRUE,
                         run.release)
    IN
    /\ run.op = "run_all" /\ run.pc = "loop"
    /\ exists(fs, day_path(run.day, run.year))
    /\ IF started
       THEN /\ procs' = Append(procs, Proc(run.day, cmd, "running"))
            /\ run' = [run EXCEPT !.pc = "wait"]
       ELSE /\ procs' = Append(procs, Proc(run.day, cmd, "failed_to_start"))
            /\ run' = output_failed(run)
    /\ UNCHANGED <<fsVars, parseVars>>

\* a running subprocess exits
SubprocessExit(outcome) ==
    \E i \in 1..Len(procs) :
       /\ procs[i].state = "running"
       /\ outcome \in ExitOutcomes(fs, procs[i].cmd)
       /\ procs' = [procs EXCEPT ![i].state = "exited",
                                 ![i].code = outcome.code,
                                 ![i].stdout = outcome.stdout]
       /\ UNCHANGED <<run, fsVars, parseVars>>

\* Command::output returns; the rest of the iteration
RunAllCollect ==
    /\ run.op = "run_all" /\ run.pc = "wait"
    /\ procs[Len(procs)].state = "exited"
    /\ run' = output_done(run, procs[Len(procs)])
    /\ UNCHANGED <<procs, fsVars, parseVars>>

(***************************************************************************)
(* main.rs: the run command                                                *)
(***************************************************************************)
\* format!("day{:02}-{}", day, year)
run_package_name(day, year) == "day" \o Pad2(day) \o "-" \o ToString(year)

\* mush run --day D --year Y [--release], up to the launch of cargo
RunStart(day, year, release, started) ==
    LET cmd  == cargo_run(run_package_name(day, year), FALSE, release)
        call == [Idle EXCEPT !.op = "run", !.year = year,
                             !.release = release, !.day = day]
    IN
    /\ run.pc = "idle"
    /\ IF started
       THEN /\ procs' = <<Proc(day, cmd, "running")>>
            /\ run' = [call EXCEPT !.pc = "wait"]
       ELSE /\ procs' = <<Proc(day, cmd, "failed_to_start")>>
            /\ run' = Returned(call, Err("LaunchFailed"), None)
    /\ UNCHANGED <<fsVars, parseVars>>

\* Command::status returns
RunFinish ==
    /\ run.op = "run" /\ run.pc = "wait"
    /\ procs[1].state = "exited"
    /\ run' = Returned(run,
                       IF success(procs[1].code) THEN Ok(<<>>)
                       ELSE ErrStatus("RunFailed", procs[1].code),
                       None)
    /\ UNCHANGED <<procs, fsVars, parseVars>>

\* the workspace left by create_scaffold run, with no credential, for each
\* of the days
RECURSIVE Scaffolded(_, _, _)
Scaffolded(f, days, year) ==
    IF days = {} THEN f
    ELSE LET d == CHOOSE d \in days : TRUE IN
         Scaffolded(create_scaffold(f, None, d, year, Unreachable, NoFault).fs,
                    days \ {d}, year)

\* the days the workspace holds: none, any one day, or some of three days
WorkspaceDays == {{d} : d \in FirstDay..LastDay} \cup SUBSET {1, 2, 25}
WorkspaceYear == 2024
RunYears == {2015, 2024}

InitRun ==
    /\ run = Idle
    /\ procs = <<>>

(***************************************************************************)
(* Specifications                                                          *)
(***************************************************************************)
Init == InitFs /\ InitParse /\ InitRun

Next ==
    \/ \E p \in ScaffoldPaths(target.day, target.year), c \in UserContents,
          fault \in {NoFault} \cup FileFaults : CreateFileCall(p, c, fault)
    \/ \E net \in NetOutcomes, fault \in LateFaults :
          CreateScaffoldCall(net, fault)
    \/ \E fault \in EarlyFaults : CreateScaffoldCall(Unreachable, fault)
    \/ \E net \in NetOutcomes : FetchInputCall(net)
    \/ \E p \in ScaffoldPaths(target.day, target.year), c \in UserContents :
          UserWrite(p, c)
    \/ \E s \in {None} \cup {Some(t) : t \in SessionTokens} : SetSession(s)

\* scaffolding, fetching and user edits on one day's directory
Spec == Init /\ [][Next]_vars

InitOutput ==
    /\ fs = [dirs |-> {}, files |-> <<>>]
    /\ session = None
    /\ requests = <<>>
    /\ target = [day |-> 1, year |-> 2024]
    /\ last = Last("init", <<>>, Ok(<<>>), <<>>, "absent")
    /\ InitParse
    /\ InitRun

NextParse ==
    \/ \E line \in OutputLines : EmitLine(line)
    \/ \E label \in Labels : ParsePartCall(label)

\* a subprocess prints its output, which is then parsed
SpecParse == InitOutput /\ [][NextParse]_vars

InitWorkspace ==
    /\ fs \in {Scaffolded([dirs |-> {}, files |-> <<>>], days, WorkspaceYear)
                : days \in WorkspaceDays}
    /\ session = None
    /\ requests = <<>>
    /\ target = [day |-> FirstDay, year |-> WorkspaceYear]
    /\ last = Last("init", <<>>, Ok(<<>>), <<>>, "absent")
    /\ InitParse
    /\ InitRun

NextRun ==
    \/ \E year \in RunYears, release \in BOOLEAN : RunAllStart(year, release)
    \/ RunAllSkipMissing
    \/ \E started \in BOOLEAN : RunAllLaunch(started)
    \/ \E outcome \in ProgramOutcomes \cup {PackageNotFound} :
          SubprocessExit(outcome)
    \/ RunAllCollect
    \/ \E day \in FirstDay..LastDay, year \in RunYears, release \in BOOLEAN,
          started \in BOOLEAN : RunStart(day, year, release, started)
    \/ RunFinish

\* the run command and run_all on a workspace of scaffolded days
SpecRun == InitWorkspace /\ [][NextRun]_vars

(***************************************************************************)
(* Properties of create_file and create_scaffold (under Spec)              *)
(***************************************************************************)
Modified == <<"// Modified content">>

FileIs(path, content) == path \in DOMAIN fs.files /\ fs.files[path] = content

TargetInput == input_path(target.day, target.year)

AllFilesExist ==
    \A p \in ScaffoldPaths(target.day, target.year) : p \in DOMAIN fs.files

IOErrors == {"DirectoryCreateFailed", "CreateFailed", "WriteFailed"}

\* the call got as far as deciding whether input.txt needs fetching
ReachedInputStep(l) ==
    \/ l.ret.ok
    \/ l.ret.err = "ReadFailed"
    \/ /\ l.ret.err \in {"CreateFailed", "WriteFailed"}
       /\ l.ret.at \in {TargetInput, example_path(target.day, target.year)}

\* C1: create_file called on a path where something already exists writes
\* nothing (the filesystem after the call is the filesystem before it) and
\* returns Ok, whatever content it is given and whatever the disk would do
\* to a write.
C1_ExistingFileNotWritten ==
    [][(last'.op = "create_file" /\ last'.before = "exists")
         => (fs' = fs /\ last'.ret = Ok(<<>>))]_vars

\* C1 witness: create_file was called on the generated manifest with a
\* user content, returned Ok, and the manifest is still the generated one.
C1_Witness ==
    /\ last.op = "create_file"
    /\ last.before = "exists"
    /\ last.ret.ok
    /\ last.path = manifest_path(target.day, target.year)
    /\ FileIs(last.path, cargo_toml_content(target.day, target.year))

\* C2: a run of create_scaffold leaves the content of every existing
\* manifest, src/main.rs and example.txt, and of an existing non-empty
\* input.txt, exactly as it found it.
C2_ScaffoldKeepsExistingFiles ==
    [][last'.op = "create_scaffold" =>
         \A p \in ScaffoldPaths(target.day, target.year) :
            (p \in DOMAIN fs.files /\ (p = TargetInput => ~is_empty(fs.files[p])))
               => (p \in DOMAIN fs'.files /\ fs'.files[p] = fs.files[p])]_vars

\* C2 witness: create_scaffold has returned Ok on a day whose four files
\* all hold a user's edit.
C2_Witness ==
    /\ last.op = "create_scaffold"
    /\ last.ret.ok
    /\ \A p \in ScaffoldPaths(target.day, target.year) : FileIs(p, Modified)

\* C3 (as claimed): when create_scaffold found input.txt absent or empty,
\* the fetcher succeeded and create_scaffold returned Ok, input.txt holds
\* the fetched text.
C3_FetchedTextWritten ==
    (/\ last.op = "create_scaffold"
     /\ last.before \in {"absent", "empty"}
     /\ last.ret.ok
     /\ Len(last.fetched) = 1
     /\ last.fetched[1].ok)
       => FileIs(TargetInput, last.fetched[1].val)

InputUntouched ==
    /\ TargetInput \in DOMAIN fs'.files
    /\ fs'.files[TargetInput] = fs.files[TargetInput]

\* C4 (as claimed): in a create_scaffold call that reaches the input step,
\* a non-empty input.txt means no fetch, no request and an untouched file;
\* an absent or empty input.txt means exactly one invocation of the fetcher.
C4_FetchIffAbsentOrEmpty ==
    [][(last'.op = "create_scaffold" /\ ReachedInputStep(last')) =>
         IF last'.before = "nonempty"
         THEN last'.fetched = <<>> /\ requests' = <<>> /\ InputUntouched
         ELSE Len(last'.fetched) = 1]_vars

\* C4 (amended): as claimed, except that when input.txt exists and reading
\* it fails, create_scaffold returns the read error without invoking the
\* fetcher and leaves the file untouched; an absent input.txt, or one read
\* as empty, means exactly one invocation of the fetcher.
C4_FetchIffAbsentOrReadEmpty ==
    [][(last'.op = "create_scaffold" /\ ReachedInputStep(last')) =>
         IF last'.before = "nonempty" \/ last'.ret.err = "ReadFailed"
         THEN /\ last'.fetched = <<>>
              /\ requests' = <<>>
              /\ InputUntouched
              /\ last'.before # "absent"
         ELSE /\ Len(last'.fetched) = 1
              /\ Len(requests') <= 1]_vars

\* C4 witness: create_scaffold found an empty input.txt, invoked the
\* fetcher once and returned Ok.
C4_Witness ==
    /\ last.op = "create_scaffold"
    /\ last.before = "empty"
    /\ Len(last.fetched) = 1
    /\ Len(requests) = 1
    /\ last.ret.ok

\* C5: when the fetcher was invoked and failed, and no directory creation
\* or file write failed, create_scaffold returns Ok and the manifest,
\* src/main.rs, input.txt and example.txt all exist, input.txt being empty
\* if it did not exist before.
C5_FetchFailureStillScaffolds ==
    (/\ last.op = "create_scaffold"
     /\ Len(last.fetched) = 1
     /\ ~last.fetched[1].ok
     /\ last.ret.err \notin IOErrors)
       => /\ last.ret = Ok(<<>>)
          /\ AllFilesExist
          /\ last.before = "absent" => FileIs(TargetInput, <<>>)

\* C5 witness: without a credential, create_scaffold on a day with no
\* input.txt returned Ok and left the four files, input.txt empty.
C5_Witness ==
    /\ last.op = "create_scaffold"
    /\ last.before = "absent"
    /\ last.fetched = <<Err("MissingCredential")>>
    /\ last.ret.ok
    /\ AllFilesExist
    /\ FileIs(TargetInput, <<>>)

(***************************************************************************)
(* Properties of the Input Fetcher (under Spec)                            *)
(***************************************************************************)
\* C9: whenever the fetcher runs, directly or from create_scaffold, with
\* AOC_SESSION unset, every invocation returns the missing-credential
\* error and the server has received no request.
C9_NoRequestWithoutCredential ==
    (last.op \in {"fetch_input", "create_scaffold"} /\ session = None)
       => /\ requests = <<>>
          /\ \A i \in 1..Len(last.fetched) :
                last.fetched[i] = Err("MissingCredential")

\* C9 witness: fetch_input was called with AOC_SESSION unset and returned
\* the missing-credential error.
C9_Witness ==
    /\ last.op = "fetch_input"
    /\ session = None
    /\ last.ret = Err("MissingCredential")
    /\ requests = <<>>

\* the request the fetcher is to issue for the day the command line names
ExpectedRequest ==
    [method |-> "GET",
     url    |-> IF target.day = 1
                THEN "https://adventofcode.com/2024/day/1/input"
                ELSE "https://adventofcode.com/2024/day/25/input",
     cookie |-> "session=test_cookie",
     agent  |-> "github.com/cmoron/aoc-rustdolph by cyril.moron@gmail.com"]

\* a response, body included, reached the client
ResponseReceived(net) == net.kind = "response" /\ net.readable

\* C10: with a credential set and a response received, a direct call of
\* the fetcher issues exactly one GET to {base_url}/{year}/day/{day}/input;
\* a status in 200..299 returns Ok with the body, any other status returns
\* an error that carries the status code and no body.
C10_StatusDecidesResult ==
    [][(last'.op = "fetch_input" /\ session # None) =>
         \A net \in NetOutcomes :
            (FetchInputCall(net) /\ ResponseReceived(net)) =>
               /\ requests' = <<ExpectedRequest>>
               /\ IF net.status >= 200 /\ net.status < 300
                  THEN last'.ret = Ok(net.body)
                  ELSE /\ ~last'.ret.ok
                       /\ last'.ret.code = net.status
                       /\ last'.ret.val = <<>>]_vars

\* C10 witness: a direct call of the fetcher got a 404 and returned an
\* error carrying 404, after one request.
C10_Witness ==
    /\ last.op = "fetch_input"
    /\ session # None
    /\ ~last.ret.ok
    /\ last.ret.code = 404
    /\ requests = <<ExpectedRequest>>

(***************************************************************************)
(* Properties of parse_part (under SpecParse)                              *)
(***************************************************************************)
First(S) == CHOOSE i \in S : \A j \in S : i <= j

HasColon(line) == IndexOf(line, ":") # 0

\* the lines of the output that begin with the label
LabelLines(ls, label) == {i \in 1..Len(ls) : starts_with(ls[i], label)}

\* C6 (as claimed): when lines begin with the label and the first of them
\* has a colon, the result parse_part returns is the one that first line
\* yields on its own.
C6_FirstLabelLineWins ==
    parsed # None =>
       LET ls    == lines(output)
           label == parsed[1].label
           m     == LabelLines(ls, label)
       IN  (m # {} /\ HasColon(ls[First(m)])) =>
              parsed[1].result = parse_part(ls[First(m)], label).result

\* C7 (as claimed): when exactly one line begins with the label and it has
\* a colon, the result is everything after the first colon of that line,
\* trimmed.
C7_EverythingAfterFirstColon ==
    parsed # None =>
       LET ls    == lines(output)
           label == parsed[1].label
           m     == LabelLines(ls, label)
       IN  (Cardinality(m) = 1 /\ HasColon(ls[First(m)])) =>
              LET line == ls[First(m)] IN
              parsed[1].result = Some(trim(Drop(line, IndexOf(line, ":"))))

\* the number a Time line holds, None when it holds none or is no Time line
TimeValue(line, label) ==
    IF starts_with(line, TimePrefix) /\ ~starts_with(line, label)
    THEN parse_f64(trim_end_matches(trim(split_nth1(line)[1]), MsSuffix))
    ELSE None

\* C8: the time parse_part returns is the number of the first parsable
\* Time line after the line that gave the result, None when there is none
\* (Time lines before it, and unparsable ones, count for nothing); a time
\* is never returned without a result; the answer is (None, None) when no
\* line begins with the label; and on the output "Part 1: 42 / Time:
\* 1.2345ms / Part 2: 99 / Time: 0.5000ms" label "Part 1" gives
\* ("42", 1.2345), "Part 2" gives ("99", 0.5) and "Part 3" (None, None).
C8_TimeFollowsResult ==
    parsed # None =>
       LET ls    == lines(output)
           label == parsed[1].label
           r     == parsed[1]
           found == {i \in LabelLines(ls, label) : HasColon(ls[i])}
           times == {i \in 1..Len(ls) :
                        i > First(found) /\ TimeValue(ls[i], label) # None}
       IN  /\ LabelLines(ls, label) = {} => (r.result = None /\ r.time = None)
           /\ r.time # None => r.result # None
           /\ found = {} => r.time = None
           /\ found # {} =>
                 r.time = IF times = {} THEN None
                          ELSE TimeValue(ls[First(times)], label)
           /\ output = ExampleOutput =>
                 /\ label = Part1 =>
                       (r.result = Some(<<"4", "2">>) /\ r.time = Some(12345))
                 /\ label = Part2 =>
                       (r.result = Some(<<"9", "9">>) /\ r.time = Some(5000))
                 /\ label = Part3 => (r.result = None /\ r.time = None)

\* C8 witness: "Part 2" has been parsed out of an output whose first Time
\* line precedes "Part 2: 99", an unparsable Time line follows it, and the
\* time returned is that of the Time line after that one.
C8_Witness ==
    /\ output = Line_Time_1_2345ms \o <<"\n">> \o Line_Part2_99 \o <<"\n">>
                \o Line_Time_2_ms \o <<"\n">> \o Line_Time_0_5000ms \o <<"\n">>
    /\ parsed = Some([label |-> Part2, result |-> Some(<<"9", "9">>),
                      time |-> Some(5000)])

(***************************************************************************)
(* Failures of create_file and create_scaffold (under Spec)                *)
(***************************************************************************)
\* C13: create_file called on a path whose parent directory does not exist
\* returns an error and leaves the filesystem as it was: neither the file
\* nor any directory is created.
C13_MissingParentFails ==
    [][(last'.op = "create_file" /\ last'.before = "orphan")
         => (~last'.ret.ok /\ fs' = fs)]_vars

\* C13 witness: with no fault injected by the disk, create_file failed on
\* input.txt of a day that has no directory, and there is still no
\* directory and no file.
C13_Witness ==
    /\ last.op = "create_file"
    /\ last.before = "orphan"
    /\ last.path = TargetInput
    /\ last.ret = ErrAt("CreateFailed", TargetInput)
    /\ fs = [dirs |-> {}, files |-> <<>>]

\* C17: when the recursive creation of solutions/{year}/dayNN/src fails,
\* create_scaffold returns the directory-creation error at once: the files
\* of the filesystem are those it had before the call (no manifest,
\* template, input.txt or example.txt is written), the fetcher is not
\* invoked and no request is sent.
C17_DirectoryFailureAborts ==
    [][\A fault \in EarlyFaults :
          (fault.step = "mkdir" /\ CreateScaffoldCall(Unreachable, fault)) =>
             /\ last'.ret = ErrAt("DirectoryCreateFailed",
                                  src_path(target.day, target.year))
             /\ fs'.files = fs.files
             /\ last'.fetched = <<>>
             /\ requests' = <<>>]_vars

\* C17 witness: with a credential set and no input.txt (so a completed
\* scaffold would have fetched), create_scaffold returned the
\* directory-creation error and no file exists.
C17_Witness ==
    /\ last.op = "create_scaffold"
    /\ last.ret.err = "DirectoryCreateFailed"
    /\ last.before = "absent"
    /\ session # None
    /\ fs.files = <<>>
    /\ last.fetched = <<>>

\* str::trim_end of a body: its trailing whitespace chunks removed
TrimmedBody(body) == trim_end(body)

\* C15 (as claimed): with a credential set and a response received whose
\* status is in 200..299, the fetcher of fetch.rs, the one create_scaffold
\* uses, returns Ok with the body stripped of all trailing whitespace
\* ("Test input data\n" is returned as "Test input data").
C15_BodyReturnedTrimmed ==
    [][(last'.op = "fetch_input" /\ session # None) =>
         \A net \in NetOutcomes :
            (/\ FetchInputCall(net)
             /\ ResponseReceived(net)
             /\ net.status >= 200 /\ net.status < 300)
               => last'.ret = Ok(TrimmedBody(net.body))]_vars

(***************************************************************************)
(* Properties of run_all and of the run command (under SpecRun)            *)
(***************************************************************************)
\* run_all has returned having printed the global report
Reported == run.op = "run_all" /\ run.pc = "done" /\ run.report # None
            /\ run.report[1].kind = "summary"

\* the positions in results of the days whose total time is least, is most
Fastest(results) ==
    {i \in 1..Len(results) :
        \A j \in 1..Len(results) : total_time(results[i]) <= total_time(results[j])}
Slowest(results) ==
    {i \in 1..Len(results) :
        \A j \in 1..Len(results) : total_time(results[i]) >= total_time(results[j])}

Latest(S) == CHOOSE i \in S : \A j \in S : i >= j

Names(opt, r) == opt = Some([day |-> r.day, time |-> total_time(r)])

\* C11 (as claimed): the fastest day reported is the first of the results
\* whose total time is least, and the slowest day reported is the first of
\* the results whose total time is most.
C11_TiesGoToFirst ==
    Reported =>
       /\ Names(run.report[1].fastest, run.results[First(Fastest(run.results))])
       /\ Names(run.report[1].slowest, run.results[First(Slowest(run.results))])

\* C11 (amended): the fastest day reported is the first of the results
\* whose total time is least, and the slowest day reported is the last of
\* the results whose total time is most; the times named are that least
\* and that most total time.
C11_FastestFirstSlowestLast ==
    Reported =>
       /\ Names(run.report[1].fastest, run.results[First(Fastest(run.results))])
       /\ Names(run.report[1].slowest, run.results[Latest(Slowest(run.results))])

\* C11 witness: days 1, 2 and 25 gave results, days 1 and 2 tie for the
\* least total time and day 25 is slower; the report names day 1 as the
\* fastest and day 25 as the slowest.
C11_Witness ==
    /\ Reported
    /\ Len(run.results) = 3
    /\ total_time(run.results[1]) = total_time(run.results[2])
    /\ total_time(run.results[2]) < total_time(run.results[3])
    /\ run.report[1].fastest = Some([day |-> 1, time |-> 12345])
    /\ run.report[1].slowest = Some([day |-> 25, time |-> 17345])

\* the subprocesses run_all has under way
Running == {i \in 1..Len(procs) : procs[i].state = "running"}

LaunchFailed == \E i \in 1..Len(procs) : procs[i].state = "failed_to_start"

\* the days run_all is done with whose subprocess exited zero
ExitedZero ==
    {procs[i].day : i \in {j \in 1..Len(procs) :
        /\ procs[j].state = "exited" /\ success(procs[j].code)
        /\ (procs[j].day < run.day \/ run.pc = "done")}}

\* the days of the year run_all runs that have a directory
ExistingDays ==
    {d \in FirstDay..LastDay :
        <<"solutions", ToString(run.year), day_str(d)>> \in fs.dirs}

\* at most one subprocess runs; results holds, in ascending order and once
\* each, the days whose subprocess exited zero; and a run_all that returned
\* without a launch failure returned Ok after visiting day 25 and launching
\* a subprocess for every day that has a directory
BatchOrderly ==
    run.op = "run_all" =>
       /\ Cardinality(Running) <= 1
       /\ \A i \in 1..Len(run.results), j \in 1..Len(run.results) :
             i < j => run.results[i].day < run.results[j].day
       /\ {run.results[i].day : i \in 1..Len(run.results)} = ExitedZero
       /\ ExitedZero \subseteq ExistingDays
       /\ (run.pc = "done" /\ ~LaunchFailed) =>
             /\ run.ret = Some(Ok(<<>>))
             /\ run.day = LastDay
             /\ {procs[i].day : i \in 1..Len(procs)} = ExistingDays

\* the iteration that ends in this step skips its day: the day has no
\* directory, or its subprocess exited non-zero
SkipsDay ==
    /\ run.op = "run_all"
    /\ run' # run
    /\ \/ run.pc = "loop" /\ run.day \notin ExistingDays
       \/ run.pc = "wait" /\ ~success(procs[Len(procs)].code)

\* C12: run_all visits the days from 1 to 25 in ascending order, a
\* subprocess is launched only for the day being visited and at most one
\* runs at a time; an iteration on a day with no directory, or whose
\* subprocess exited non-zero, adds no DayResult and goes on to the next
\* day (after day 25, to the report and Ok); results holds exactly the days
\* whose directory exists and whose subprocess exited zero, once each and
\* in ascending order, and run_all then returns Ok having visited all days.
C12_FailedDaysAreSkipped ==
    [][/\ BatchOrderly'
       /\ (run.pc = "idle" /\ run'.op = "run_all") => run'.day = FirstDay
       /\ run.op = "run_all" => run'.day \in {run.day, run.day + 1}
       /\ (run'.op = "run_all" /\ Len(procs') > Len(procs)) =>
             procs'[Len(procs')].day = run.day
       /\ SkipsDay =>
             /\ run'.results = run.results
             /\ IF run.day < LastDay
                THEN run'.pc = "loop" /\ run'.day = run.day + 1
                ELSE run'.pc = "done" /\ run'.ret = Some(Ok(<<>>))]_vars

\* C12 witness: in a workspace of days 1, 2 and 25, the subprocess of day 1
\* exited non-zero and those of days 2 and 25 exited zero; run_all returned
\* Ok with the results of days 2 and 25.
C12_Witness ==
    /\ run.op = "run_all" /\ run.pc = "done"
    /\ run.ret = Some(Ok(<<>>))
    /\ Len(procs) = 3
    /\ ~success(procs[1].code)
    /\ Len(run.results) = 2
    /\ run.results[1].day = 2
    /\ run.results[2].day = 25

\* the sum of the part times a DayResult holds
PresentTimes(r) ==
    (IF r.part1_time # None THEN r.part1_time[1] ELSE 0)
    + (IF r.part2_time # None THEN r.part2_time[1] ELSE 0)

RECURSIVE SumOfDays(_, _)
SumOfDays(results, n) ==
    IF n = 0 THEN 0 ELSE SumOfDays(results, n - 1) + PresentTimes(results[n])

\* C16: when run_all returns after its loop, with no result it has printed
\* that no day was found, computed no aggregate and returned Ok; with
\* results it has printed a report whose total is the sum over the results
\* of the present part times of each day (an absent time counting zero)
\* and whose average is that total divided by the number of results,
\* which is not zero.
C16_AggregateOnlyWhenResults ==
    (run.op = "run_all" /\ run.pc = "done" /\ ~LaunchFailed) =>
       /\ run.ret = Some(Ok(<<>>))
       /\ run.report # None
       /\ IF run.results = <<>>
          THEN run.report[1] = [kind |-> "none_found", year |-> run.year]
          ELSE /\ run.report[1].kind = "summary"
               /\ run.report[1].completed = Len(run.results)
               /\ run.report[1].total_time =
                     SumOfDays(run.results, Len(run.results))
               /\ run.report[1].avg_time =
                     [num |-> SumOfDays(run.results, Len(run.results)),
                      den |-> Len(run.results)]
               /\ run.report[1].avg_time.den > 0

\* C16 witness: day 1 printed a time for part 1 only (1.2345 ms) and day 2
\* for both parts (1.2345 ms and 0.5 ms); the report gives a total of
\* 2.9690 ms and an average of 2.9690 / 2.
C16_Witness ==
    /\ Reported
    /\ Len(run.results) = 2
    /\ run.results[1].part2_time = None
    /\ run.results[2].part2_time = Some(5000)
    /\ run.report[1].total_time = 29690
    /\ run.report[1].avg_time = [num |-> 29690, den |-> 2]

\* C18: once the launch of a day's subprocess has failed in run_all,
\* run_all has returned an error that names that day, the failed launch is
\* the last one it attempted (no later day is run), and it has printed no
\* report, whatever results the earlier days gave.
C18_LaunchFailureAborts ==
    (run.op = "run_all" /\ LaunchFailed) =>
       /\ run.pc = "done"
       /\ run.ret = Some(ErrStatus("LaunchFailed", run.day))
       /\ procs[Len(procs)].state = "failed_to_start"
       /\ procs[Len(procs)].day = run.day
       /\ \A i \in 1..(Len(procs) - 1) : procs[i].state = "exited"
       /\ run.report = None

\* C18 witness: in a workspace of days 1, 2 and 25, day 1 gave a result,
\* the launch for day 2 failed, and run_all returned the error with no
\* subprocess for day 25 and no report.
C18_Witness ==
    /\ run.op = "run_all" /\ run.pc = "done"
    /\ LaunchFailed
    /\ Len(run.results) = 1
    /\ run.results[1].day = 1
    /\ run.day = 2
    /\ input_path(25, run.year) \in DOMAIN fs.files
    /\ Len(procs) = 2
    /\ run.report = None
    /\ ~run.ret[1].ok

DigitChars == <<"0", "1", "2", "3", "4", "5", "6", "7", "8", "9">>

\* NN: the day as two decimal digits
TwoDigits(d) == DigitChars[(d \div 10) + 1] \o DigitChars[(d % 10) + 1]

YearText(y) == IF y = 2024 THEN "2024" ELSE IF y = 2015 THEN "2015" ELSE "?"

EmptyDisk == [dirs |-> {}, files |-> <<>>]

\* C14: for the day and year of a run or run_all call (every day from 1 to
\* 25 in turn), create_scaffold makes the directory solutions/{year}/dayNN
\* and a manifest there whose package is dayNN-{year}, NN being the day in
\* two digits; every subprocess launched for a day is cargo run -p
\* dayNN-{year}; run_all launches it only when solutions/{year}/dayNN
\* exists; and in a workspace where that day was scaffolded the package
\* resolves to the one manifest solutions/{year}/dayNN/Cargo.toml.
C14_SameNamesEverywhere ==
    run.op # "none" =>
       LET Y       == YearText(run.year)
           dir(d)  == <<"solutions", Y, "day" \o TwoDigits(d)>>
           pkg(d)  == "day" \o TwoDigits(d) \o "-" \o Y
           made    == create_scaffold(EmptyDisk, None, run.day, run.year,
                                      Unreachable, NoFault).fs
       IN  /\ dir(run.day) \in made.dirs
           /\ cargo_members(made, pkg(run.day))
                 = {dir(run.day) \o <<"Cargo.toml">>}
           /\ \A i \in 1..Len(procs) :
                 LET d == procs[i].day IN
                 /\ procs[i].cmd.program = "cargo"
                 /\ SubSeq(procs[i].cmd.args, 1, 3) = <<"run", "-p", pkg(d)>>
                 /\ run.op = "run_all" => dir(d) \in fs.dirs
                 /\ dir(d) \o <<"Cargo.toml">> \in DOMAIN fs.files =>
                       cargo_members(fs, package_of(procs[i].cmd))
                          = {dir(d) \o <<"Cargo.toml">>}

\* C14 witness: in a workspace where days 1 and 25 of 2024 were
\* scaffolded, run_all has run day01-2024 and day25-2024 and holds a
\* result for both.
C14_Witness ==
    /\ run.op = "run_all" /\ run.pc = "done"
    /\ Len(procs) = 2
    /\ package_of(procs[1].cmd) = "day01-2024"
    /\ package_of(procs[2].cmd) = "day25-2024"
    /\ FileIs(<<"solutions", "2024", "day01", "Cargo.toml">>,
              cargo_toml_content(1, 2024))
    /\ FileIs(<<"solutions", "2024", "day25", "Cargo.toml">>,
              cargo_toml_content(25, 2024))
    /\ Len(run.results) = 2

====
